---- MODULE Spec2Model ----
(***************************************************************************)
(* Lifecycle of browsermobproxy.server.Server: construction (resolution of *)
(* the executable), start() (log file, pre-spawn probe, spawn, polling     *)
(* loop), stop() and the weakref finalizer of Server.__FinalizedServer.    *)
(* The operating system is the environment: child processes bind the port  *)
(* or exit on their own, other processes bind and release the port.        *)
(***************************************************************************)
EXTENDS Integers, Sequences, FiniteSets, TLC

\* ------------------------------------------------------------------ bounds
\* children one Server may spawn in a behaviour
MaxChildren == 2
\* log files one Server may open in a behaviour
MaxFiles == 2
\* largest retry_count option a caller passes (0 is passed too)
MaxRetry == 2
\* cap on the loop counter of start(), for the runs that never leave the loop
MaxCount == 3

\* ------------------------------------------------------------ Python values
\* Python's None in the fields fin.process and fin.log_file
None == 0
\* holder of the port that is not a child of this Server
Other == -1
\* os.environ without a PATH entry
NoPath == <<"<unset>">>

Children == 1..MaxChildren
Handles == 1..MaxFiles
RetryCounts == 0..MaxRetry

VARIABLES
    platform,     \* platform.system() / sys.platform of the host
    environ,      \* value of os.environ['PATH'] (a string), or NoPath
    files,        \* the regular files of the file system (their paths)
    argPath,      \* the path argument of Server(path, options)
    cfg,          \* the Server's configuration after __init__, or NoServer
    pc,           \* position of the caller in __init__ / start()
    process,      \* fin.process: None or the tracked child
    log_file,     \* fin.log_file: None or the tracked file handle
    status,       \* per child: "unborn", "running", "exit0", "exit1", "killed"
    listening,    \* who accepts connections on (host, port): None, a child, Other
    openFiles,    \* file handles opened by this Server and not closed
    nextChild,    \* number of children spawned so far
    nextFile,     \* number of log files opened so far
    kills,        \* per child: SIGKILLs sent to it by stop()
    sigs,         \* per child: SIGINTs delivered to its group by stop()
    count,        \* local `count` of start()
    retry_count,  \* local `retry_count` of start()
    lastOp,       \* the last call that finished, and how
    stopLog,      \* the steps taken by the last run of fin.stop()
    started,      \* start() has been called on this Server
    callClean     \* no child of this Server was running when start() was called

envVars == <<platform, environ, files, argPath>>
finVars == <<process, log_file>>
osVars == <<status, listening, openFiles, kills, sigs>>
callVars == <<pc, count, retry_count, lastOp, stopLog, started, callClean>>
vars == <<envVars, cfg, finVars, osVars, nextChild, nextFile, callVars>>

\* ------------------------------------------------------- Server.__init__
\* strings are sequences of one-character strings
Bat == <<".", "b", "a", "t">>

\* str.endswith
EndsWith(s, suf) ==
    /\ Len(s) >= Len(suf)
    /\ SubSeq(s, Len(s) - Len(suf) + 1, Len(s)) = suf

\* platform.system() == 'Windows'  /  sys.platform == "win32"
IsWindows(plat) == plat = "Windows"

\* path_var_sep
PathVarSep(plat) == IF IsWindows(plat) THEN ";" ELSE ":"

\* the path after the '.bat' adaptation of the Windows branch
EffectivePath(plat, path) ==
    IF IsWindows(plat) /\ ~EndsWith(path, Bat) THEN path \o Bat ELSE path

\* str.split(sep) for a one-character separator
RECURSIVE Split(_, _)
Split(s, sep) ==
    IF \A i \in 1..Len(s) : s[i] # sep
    THEN <<s>>
    ELSE LET i == CHOOSE k \in 1..Len(s) :
                    s[k] = sep /\ \A j \in 1..(k - 1) : s[j] # sep
         IN  <<SubSeq(s, 1, i - 1)>> \o Split(SubSeq(s, i + 1, Len(s)), sep)

\* os.sep of the platform
OsSep(plat) == IF IsWindows(plat) THEN "\\" ELSE "/"

\* os.path.join(directory, path) for a relative path
OsPathJoin(plat, directory, path) ==
    IF directory = <<>> \/ directory[Len(directory)] = OsSep(plat)
    THEN directory \o path
    ELSE directory \o <<OsSep(plat)>> \o path

\* os.path.isfile
IsFile(fs, p) == p \in fs

\* exec_not_on_path after the loop over the PATH directories
ExecNotOnPath(plat, env, fs, path) ==
    LET dirs == Split(env, PathVarSep(plat))
    IN  ~\E i \in 1..Len(dirs) : IsFile(fs, OsPathJoin(plat, dirs[i], path))

\* how Server(path) ends: the PATH lookup comes first, then the file tests
CtorResult(plat, env, fs, path) ==
    LET eff == EffectivePath(plat, path)
    IN  IF env = NoPath THEN "KeyError"
        ELSE IF ~IsFile(fs, eff) /\ ExecNotOnPath(plat, env, fs, eff)
             THEN "ProxyServerError: binary not found"
             ELSE "ok"

DefaultHost == "localhost"
DefaultPort == 8080
DefaultProxyPortRange == "8081-8581"

\* self.command
Command(plat, path, port, range) ==
    (IF plat = "Darwin" THEN <<"sh">> ELSE <<>>)
        \o <<path, <<"--port=%s", port>>, <<"--proxyPortRange=%s", range>>>>

\* the attributes __init__ sets on the Server
Config(plat, path) ==
    [path |-> EffectivePath(plat, path),
     host |-> DefaultHost,
     port |-> DefaultPort,
     proxyPortRange |-> DefaultProxyPortRange,
     command |-> Command(plat, EffectivePath(plat, path), DefaultPort,
                         DefaultProxyPortRange)]

\* the attributes before __init__ has set them
NoServer ==
    [path |-> <<>>, host |-> "", port |-> 0, proxyPortRange |-> "",
     command |-> <<>>]

\* fin.win_env
win_env == platform = "Windows"

\* ------------------------------------------------------------ initial state
Platforms == {"Linux", "Windows", "Darwin"}
PathValues == {NoPath, <<"d">>}
Installed == {<<"d", "/", "p">>, <<"d", "\\", "p", ".", "b", "a", "t">>}
FileSystems == {{}, Installed}
Paths == {<<"p">>}

Op(op, res) == [op |-> op, res |-> res]

Init ==
    /\ platform \in Platforms
    /\ environ \in PathValues
    /\ files \in FileSystems
    /\ argPath \in Paths
    /\ cfg = NoServer
    /\ pc = "new"
    /\ process = None
    /\ log_file = None
    /\ status = [c \in Children |-> "unborn"]
    /\ listening \in {None, Other}
    /\ openFiles = {}
    /\ nextChild = 0
    /\ nextFile = 0
    /\ kills = [c \in Children |-> 0]
    /\ sigs = [c \in Children |-> 0]
    /\ count = 0
    /\ retry_count = 0
    /\ lastOp = Op("none", "ok")
    /\ stopLog = <<>>
    /\ started = FALSE
    /\ callClean = TRUE

\* Server(path): __init__ runs to its end or raises
Construct ==
    /\ pc = "new"
    /\ LET r == CtorResult(platform, environ, files, argPath)
       IN  /\ lastOp' = Op("init", r)
           /\ IF r = "ok"
              THEN /\ cfg' = Config(platform, argPath)
                   /\ pc' = "idle"
              ELSE /\ cfg' = cfg
                   /\ pc' = "no server"
    /\ UNCHANGED <<envVars, finVars, osVars, nextChild, nextFile, count,
                   retry_count, stopLog, started, callClean>>

\* ------------------------------------------------ RemoteServer._is_listening
\* a probe that never connects (wrong address)
IsListeningNever == FALSE

\* the connect to (host, port) succeeds
IsListening == listening # None

\* ------------------------------------------------- __FinalizedServer.stop
\* Popen.poll(): None while the child runs, else its return code
Poll(c) ==
    CASE status[c] = "running" -> "None"
      [] status[c] = "exit0" -> "0"
      [] status[c] = "exit1" -> "1"
      [] status[c] = "killed" -> "-9"
      [] OTHER -> "None"

\* the exit test inverted: `if self.fin.process.poll() is None`
PollIsNone(rc) == rc = "None"

\* truth value of a poll() result in `if self.fin.process.poll():`
Truthy(rc) == rc \notin {"None", "0"}

\* the guard of stop() without its poll(): `if self.process`
StopActsNoPoll == process # None

\* the guard of stop() inverted: `self.process.poll() is not None`
StopActsInverted == process # None /\ Poll(process) # "None"

\* `if self.process and self.process.poll() is None`
StopActs == process # None /\ Poll(process) = "None"

\* what os.killpg(group_pid, SIGINT) can do once the child is reaped:
\* os has no killpg on win32 (AttributeError); elsewhere the signal is
\* delivered, or the group is gone / not permitted (OSError)
KillpgOutcomes ==
    IF win_env THEN {"AttributeError"} ELSE {"ok", "OSError"}

\* the exception leaves stop(): only AttributeError is caught
StopRaises(o) == StopActs /\ o = "OSError"

\* fin.process after stop(): cleared only after a killpg that returned
StopProcess(o) == IF StopActs /\ o = "ok" THEN None ELSE process

\* stop() without `self.log_file = None`
StopLogFileKept(o) == log_file

\* fin.log_file after stop()
StopLogFile(o) == IF StopRaises(o) THEN log_file ELSE None

\* the handles still open after stop()
StopOpenFiles(o) ==
    IF StopRaises(o) \/ log_file = None THEN openFiles
    ELSE openFiles \ {log_file}

\* stop() with the group signal sent before the kill
StopStepsSignalFirst(o) ==
    (IF process # None THEN <<"poll">> ELSE <<>>)
    \o (IF StopActs
        THEN (IF win_env THEN <<>> ELSE <<"getpgid">>)
             \o <<"killpg:" \o o, "kill", "wait">>
             \o (IF o = "ok" THEN <<"process=None">> ELSE <<>>)
        ELSE <<>>)
    \o (IF ~StopRaises(o) /\ log_file # None
        THEN <<"close", "log_file=None">> ELSE <<>>)

\* the steps of one run of stop(), in program order
StopSteps(o) ==
    (IF process # None THEN <<"poll">> ELSE <<>>)
    \o (IF StopActs
        THEN (IF win_env THEN <<>> ELSE <<"getpgid">>)
             \o <<"kill", "wait", "killpg:" \o o>>
             \o (IF o = "ok" THEN <<"process=None">> ELSE <<>>)
        ELSE <<>>)
    \o (IF ~StopRaises(o) /\ log_file # None
        THEN <<"close", "log_file=None">> ELSE <<>>)

\* one run of fin.stop() with killpg outcome o
FinStop(o) ==
    /\ process' = StopProcess(o)
    /\ log_file' = StopLogFile(o)
    /\ openFiles' = StopOpenFiles(o)
    /\ stopLog' = StopSteps(o)
    /\ IF StopActs
       THEN /\ status' = [status EXCEPT ![process] = "killed"]
            /\ listening' = IF listening = process THEN None ELSE listening
            /\ kills' = [kills EXCEPT ![process] = @ + 1]
            /\ sigs' = IF o = "ok" THEN [sigs EXCEPT ![process] = @ + 1]
                       ELSE sigs
       ELSE UNCHANGED <<status, listening, kills, sigs>>

\* a stop() that also empties self.command
StopClearsCommand ==
    /\ pc = "idle"
    /\ \E o \in KillpgOutcomes :
         /\ FinStop(o)
         /\ lastOp' = Op("stop", IF StopRaises(o) THEN "OSError" ELSE "ok")
    /\ cfg' = [cfg EXCEPT !.command = <<>>]
    /\ UNCHANGED <<envVars, nextChild, nextFile, pc, count, retry_count,
                   started, callClean>>

\* Server.stop()
Stop ==
    /\ pc = "idle"
    /\ \E o \in KillpgOutcomes :
         /\ FinStop(o)
         /\ lastOp' = Op("stop", IF StopRaises(o) THEN "OSError" ELSE "ok")
    /\ UNCHANGED <<envVars, cfg, nextChild, nextFile, pc, count, retry_count,
                   started, callClean>>

\* the Server is collected: weakref.finalize runs fin.stop once; what it
\* raises goes to sys.excepthook, not to a caller
Finalize ==
    /\ pc = "idle"
    /\ \E o \in KillpgOutcomes :
         /\ FinStop(o)
         /\ lastOp' = Op("finalize",
                         IF StopRaises(o) THEN "OSError" ELSE "ok")
    /\ pc' = "collected"
    /\ UNCHANGED <<envVars, cfg, nextChild, nextFile, count, retry_count,
                   started, callClean>>

\* ------------------------------------------------------------ Server.start
\* no child this Server spawned is running
NoneRunning == \A c \in Children : status[c] # "running"

\* `if count == retry_count`
Exhausted(n, rc) == n = rc

\* start(options) up to the open of the log file; the open may raise
StartOpen ==
    /\ pc = "idle"
    /\ nextFile < MaxFiles
    /\ nextChild < MaxChildren
    /\ started' = TRUE
    /\ callClean' = NoneRunning
    /\ \E rc \in RetryCounts, openOk \in BOOLEAN :
         IF openOk
         THEN /\ retry_count' = rc
              /\ nextFile' = nextFile + 1
              /\ log_file' = nextFile + 1
              /\ openFiles' = openFiles \cup {nextFile + 1}
              /\ pc' = "precheck"
              /\ lastOp' = lastOp
         ELSE /\ lastOp' = Op("start", "OSError")
              /\ UNCHANGED <<retry_count, nextFile, log_file, openFiles, pc>>
    /\ UNCHANGED <<envVars, cfg, process, status, listening, kills, sigs,
                   nextChild, count, stopLog>>

\* the probe before the spawn
StartPreProbe ==
    /\ pc = "precheck"
    /\ IF IsListening
       THEN /\ pc' = "idle"
            /\ lastOp' = Op("start", "ProxyServerError: Port already in use")
       ELSE /\ pc' = "spawn"
            /\ lastOp' = lastOp
    /\ UNCHANGED <<envVars, cfg, finVars, osVars, nextChild, nextFile, count,
                   retry_count, stopLog, started, callClean>>

\* _start_on_windows / _start_on_unix; Popen may raise, then `count = 0`
StartSpawn ==
    /\ pc = "spawn"
    /\ \E spawnOk \in BOOLEAN :
         IF spawnOk
         THEN /\ nextChild' = nextChild + 1
              /\ process' = nextChild + 1
              /\ status' = [status EXCEPT ![nextChild + 1] = "running"]
              /\ count' = 0
              /\ pc' = "probe"
              /\ lastOp' = lastOp
         ELSE /\ pc' = "idle"
              /\ lastOp' = Op("start", "OSError")
              /\ UNCHANGED <<nextChild, process, status, count>>
    /\ UNCHANGED <<envVars, cfg, log_file, listening, openFiles, kills, sigs,
                   nextFile, retry_count, stopLog, started, callClean>>

\* the loop condition inverted: `while self._is_listening()`
LoopContinuesWhileListening == IsListening

\* the loop condition `not self._is_listening()`
LoopContinues == ~IsListening

\* `while not self._is_listening()`: leaving the loop returns from start()
StartProbe ==
    /\ pc = "probe"
    /\ IF ~LoopContinues
       THEN /\ pc' = "idle"
            /\ lastOp' = Op("start", "ok")
       ELSE /\ pc' = "check"
            /\ lastOp' = lastOp
    /\ UNCHANGED <<envVars, cfg, finVars, osVars, nextChild, nextFile, count,
                   retry_count, stopLog, started, callClean>>

\* `if self.fin.process.poll(): raise`
StartCheck ==
    /\ pc = "check"
    /\ IF Truthy(Poll(process))
       THEN /\ pc' = "idle"
            /\ lastOp' = Op("start", "ProxyServerError: failed to start")
       ELSE /\ pc' = "sleep"
            /\ lastOp' = lastOp
    /\ UNCHANGED <<envVars, cfg, finVars, osVars, nextChild, nextFile, count,
                   retry_count, stopLog, started, callClean>>

\* time.sleep; count += 1; on count == retry_count: self.stop(), raise
StartSleep ==
    /\ pc = "sleep"
    /\ count < MaxCount
    /\ count' = count + 1
    /\ IF Exhausted(count + 1, retry_count)
       THEN \E o \in KillpgOutcomes :
              /\ FinStop(o)
              /\ pc' = "idle"
              /\ lastOp' = Op("start",
                              IF StopRaises(o) THEN "OSError"
                              ELSE "ProxyServerError: Can't connect")
       ELSE /\ pc' = "probe"
            /\ UNCHANGED <<finVars, osVars, lastOp, stopLog>>
    /\ UNCHANGED <<envVars, cfg, nextChild, nextFile, retry_count, started,
                   callClean>>

\* ------------------------------------------------------- the environment
\* a running child starts to accept connections on the port
ChildBinds ==
    /\ \E c \in Children :
         /\ status[c] = "running"
         /\ listening = None
         /\ listening' = c
    /\ UNCHANGED <<envVars, cfg, finVars, status, openFiles, kills, sigs,
                   nextChild, nextFile, callVars>>

\* a running child exits on its own, with status 0 or not
ChildExits ==
    /\ \E c \in Children, how \in {"exit0", "exit1"} :
         /\ status[c] = "running"
         /\ status' = [status EXCEPT ![c] = how]
         /\ listening' = IF listening = c THEN None ELSE listening
    /\ UNCHANGED <<envVars, cfg, finVars, openFiles, kills, sigs, nextChild,
                   nextFile, callVars>>

\* a process that is no child of this Server binds the port
OtherBinds ==
    /\ pc \notin {"new", "no server"}
    /\ listening = None
    /\ listening' = Other
    /\ UNCHANGED <<envVars, cfg, finVars, status, openFiles, kills, sigs,
                   nextChild, nextFile, callVars>>

\* and releases it
OtherReleases ==
    /\ pc \notin {"new", "no server"}
    /\ listening = Other
    /\ listening' = None
    /\ UNCHANGED <<envVars, cfg, finVars, status, openFiles, kills, sigs,
                   nextChild, nextFile, callVars>>

\* the runtime closes a file object nothing refers to any more (the one
\* `self.fin.log_file = open(...)` displaced, or the one of a collected
\* Server): at once under reference counting, later or never otherwise
FileCollected ==
    /\ \E h \in openFiles :
         /\ h # log_file \/ pc = "collected"
         /\ openFiles' = openFiles \ {h}
    /\ UNCHANGED <<envVars, cfg, finVars, status, listening, kills, sigs,
                   nextChild, nextFile, callVars>>

Next ==
    \/ Construct
    \/ StartOpen
    \/ StartPreProbe
    \/ StartSpawn
    \/ StartProbe
    \/ StartCheck
    \/ StartSleep
    \/ Stop
    \/ Finalize
    \/ ChildBinds
    \/ ChildExits
    \/ OtherBinds
    \/ OtherReleases
    \/ FileCollected

Spec == Init /\ [][Next]_vars

\* ------------------------------------------------------------- properties
PortInUse == "ProxyServerError: Port already in use"
FailedToStart == "ProxyServerError: failed to start"
CantConnect == "ProxyServerError: Can't connect"
ProxyServerErrors ==
    {"ProxyServerError: binary not found", PortInUse, FailedToStart,
     CantConnect}

\* the tracked child is running
TrackedRunning == process # None /\ status[process] = "running"

\* a run of fin.stop() by stop() or by the finalizer
StopRun == Stop \/ Finalize

\* start() was never called, or the last thing the Server did was a stop()
\* that ran to its end (called by the user, or by start() on exhaustion)
StopHasNothingToDo ==
    \/ ~started
    \/ lastOp = Op("stop", "ok")
    \/ lastOp = Op("start", CantConnect)

\* C1: a stop() (or finalizer run) on a Server that was never started, or
\* that follows a stop() that ran to its end, raises nothing, kills nothing,
\* signals no group, closes no file and leaves fin.process and fin.log_file
\* as they were; and no child is ever killed twice or its group signalled
\* twice.
C1_StopIdempotent ==
    /\ [][(pc = "idle" /\ StopHasNothingToDo /\ StopRun)
            => /\ lastOp'.res = "ok"
               /\ kills' = kills
               /\ sigs' = sigs
               /\ openFiles' = openFiles
               /\ status' = status
               /\ process' = process
               /\ log_file' = log_file]_vars
    /\ [](\A c \in Children : kills[c] <= 1 /\ sigs[c] <= 1)

\* a second stop() ran after one that had killed a child, and did nothing
C1_Witness ==
    /\ lastOp = Op("stop", "ok")
    /\ stopLog \in {<<>>, <<"poll">>}
    /\ \E c \in Children : kills[c] = 1

\* C2: when the probe before the spawn connects, start() raises "Port
\* already in use", and from the call to the raise nothing is spawned and
\* fin.process keeps its value.
C2_PortInUseNoSpawn ==
    /\ [][(pc = "precheck" /\ listening # None /\ StartPreProbe)
            => /\ pc' = "idle"
               /\ lastOp' = Op("start", PortInUse)
               /\ process' = process
               /\ nextChild' = nextChild
               /\ status' = status]_vars
    /\ [][(pc = "idle" /\ pc' = "precheck")
            => (process' = process /\ nextChild' = nextChild)]_vars

\* start() failed with "Port already in use" on a Server that tracks a child
C2_Witness ==
    /\ pc = "idle"
    /\ lastOp = Op("start", PortInUse)
    /\ process # None

\* C3: in the loop, when the probe has failed and the child has exited with
\* any status, the exit test raises at once: no sleep, no further retry.
C3_ExitedChildFailsAtOnce ==
    [][(pc = "check" /\ status[process] \in {"exit0", "exit1", "killed"}
          /\ StartCheck)
         => /\ pc' = "idle"
            /\ lastOp' = Op("start", FailedToStart)
            /\ count' = count]_vars

\* C4: with a child that runs and never binds, the retry_count-th sleep is
\* followed by stop(), which kills the child, and then by
\* ProxyServerError("Can't connect").
C4_HungChildTimesOut ==
    [][(pc = "sleep" /\ status[process] = "running"
          /\ count + 1 = retry_count /\ StartSleep)
         => /\ pc' = "idle"
            /\ status'[process] = "killed"
            /\ lastOp' = Op("start", CantConnect)]_vars

\* C5: for every retry_count, start() has returned or raised once
\* retry_count iterations of the loop are done: inside the loop the number
\* of finished iterations never exceeds retry_count.
C5_StartTerminates ==
    pc \in {"probe", "check", "sleep"} => count <= retry_count

\* a step in which start() raises
StartFails ==
    /\ StartOpen \/ StartPreProbe \/ StartSpawn \/ StartCheck \/ StartSleep
    /\ pc' = "idle"
    /\ lastOp'.op = "start"
    /\ lastOp'.res # "ok"

\* C6, as stated: whenever start() raises one of its ProxyServerErrors, in
\* any sequence of calls, no child this Server spawned is running.
C6_NoChildRunsAtError ==
    [][(StartFails /\ lastOp'.res \in ProxyServerErrors)
         => NoneRunning']_vars

\* C6, amended: whenever a start() that was called while no child of the
\* Server was running raises, no child this Server spawned is running.
C6_NoChildRunsAtErrorOfCleanStart ==
    [][(StartFails /\ callClean') => NoneRunning']_vars

\* a start() called with nothing running spawned a child and raised
C6_Witness ==
    /\ pc = "idle"
    /\ callClean
    /\ lastOp.op = "start"
    /\ lastOp.res \in {FailedToStart, CantConnect, "OSError"}
    /\ process # None
    /\ status[process] \in {"exit1", "killed"}

\* stop() has returned on a Server that had spawned a child, and nothing
\* was called since
Stopped ==
    /\ pc = "idle"
    /\ lastOp = Op("stop", "ok")
    /\ nextChild > 0

\* C7, as stated: once stop() has torn a started Server down, no later
\* operation spawns a child or opens a log file.
C7_StoppedIsTerminal ==
    [][Stopped => (nextChild' = nextChild /\ nextFile' = nextFile)]_vars

\* C7, amended: once stop() has torn a started Server down, the Server
\* tracks no running child and no log file, and nothing but a new start()
\* spawns a child or opens a log file.
C7_StoppedUntilStart ==
    [][(Stopped /\ ~StartOpen)
         => /\ nextChild' = nextChild
            /\ nextFile' = nextFile
            /\ ~TrackedRunning'
            /\ log_file' = None]_vars

\* a start() after the teardown of the first child spawned a second one
C7_Witness ==
    /\ nextChild = 2
    /\ kills[1] = 1
    /\ status[2] = "running"
    /\ process = 2
    /\ log_file = 2

\* C8: when stop() returns, whatever the group signal did, the tracked
\* child is not running, fin.log_file is None and the handle it held is
\* closed.
C8_StopReleases ==
    [][(StopRun /\ lastOp'.res = "ok")
         => /\ ~TrackedRunning'
            /\ (process # None => status'[process] # "running")
            /\ log_file' = None
            /\ log_file \notin openFiles']_vars

\* stop() returned on a Server whose start() had succeeded: it killed the
\* child and closed the log file
C8_Witness ==
    /\ lastOp = Op("stop", "ok")
    /\ Len(stopLog) >= 5
    /\ stopLog[Len(stopLog)] = "log_file=None"
    /\ \E c \in Children : kills[c] = 1
    /\ log_file = None
    /\ openFiles = {}

\* C9: no error of the group signal leaves stop(), and stop() goes on to
\* close and clear the log file.
C9_GroupSignalErrorSwallowed ==
    [][(pc = "idle" /\ TrackedRunning /\ Stop)
         => (lastOp' = Op("stop", "ok") /\ log_file' = None)]_vars

\* C10: what Server(...) and start() raise is a ProxyServerError.
C10_OnlyProxyServerError ==
    lastOp.op \in {"init", "start"}
        => lastOp.res \in {"ok"} \cup ProxyServerErrors

\* C11: when a Server that tracks a running child is collected, the
\* finalizer kills the child and closes and clears the log file, as stop()
\* does; after a stop() that ran to its end the finalizer changes nothing.
C11_FinalizerCleansUp ==
    [][Finalize
         => /\ TrackedRunning
                => /\ status'[process] = "killed"
                   /\ log_file' = None
                   /\ log_file \notin openFiles'
            /\ lastOp = Op("stop", "ok")
                => UNCHANGED <<finVars, osVars>>]_vars

\* start() has just returned normally
StartReturns ==
    /\ pc \in {"precheck", "spawn", "probe", "check", "sleep"}
    /\ pc' = "idle"
    /\ lastOp' = Op("start", "ok")

\* C12: start() returns normally only from the loop test, and the probe of
\* that test connected: (host, port) was accepting connections.
C12_ReturnsWhenListening ==
    [][StartReturns => (pc = "probe" /\ listening # None)]_vars

\* start() returned normally after at least one failed probe and sleep
C12_Witness ==
    /\ pc = "idle"
    /\ lastOp = Op("start", "ok")
    /\ count >= 1
    /\ listening # None

\* C13: when start() returns normally, the child that call spawned is
\* still running, whatever other processes and the child did meanwhile.
C13_ReturnsWithLiveChild ==
    [][StartReturns => (process' # None /\ status'[process'] = "running")]_vars

\* ------------------------------------------- construction on wider inputs
CtorPathValues ==
    {NoPath, <<>>, <<"d">>, <<"d", ":", "e">>, <<"d", ";", "e">>}
CtorPaths == {<<"p">>, <<"p">> \o Bat}
CtorFiles ==
    {<<"p">>, <<"p">> \o Bat, <<"d", "/", "p">>, <<"e", "/", "p">>,
     <<"d", "\\", "p">> \o Bat, <<"e", "\\", "p">> \o Bat}

InitCtor ==
    /\ platform \in Platforms
    /\ environ \in CtorPathValues
    /\ files \in SUBSET CtorFiles
    /\ argPath \in CtorPaths
    /\ cfg = NoServer
    /\ pc = "new"
    /\ process = None
    /\ log_file = None
    /\ status = [c \in Children |-> "unborn"]
    /\ listening = None
    /\ openFiles = {}
    /\ nextChild = 0
    /\ nextFile = 0
    /\ kills = [c \in Children |-> 0]
    /\ sigs = [c \in Children |-> 0]
    /\ count = 0
    /\ retry_count = 0
    /\ lastOp = Op("none", "ok")
    /\ stopLog = <<>>
    /\ started = FALSE
    /\ callClean = TRUE

NextCtor == Construct

SpecCtor == InitCtor /\ [][NextCtor]_vars

\* the effective path is an existing file, or a directory of the PATH list
\* holds a file of that name
Resolvable ==
    LET eff == EffectivePath(platform, argPath)
        dirs == IF environ = NoPath THEN <<>>
                ELSE Split(environ, PathVarSep(platform))
    IN  \/ eff \in files
        \/ \E i \in 1..Len(dirs) : OsPathJoin(platform, dirs[i], eff) \in files

\* C14: Server(path) succeeds exactly when the effective path resolves; in
\* every other case it raises ProxyServerError and there is no Server.
C14_ConstructsIffResolvable ==
    lastOp.op = "init"
        => /\ Resolvable <=> lastOp.res = "ok"
           /\ Resolvable => (pc = "idle" /\ cfg = Config(platform, argPath))
           /\ ~Resolvable
                => /\ lastOp.res = "ProxyServerError: binary not found"
                   /\ pc = "no server"
                   /\ cfg = NoServer

\* position of the first x in L, 0 when L has none
Pos(L, x) ==
    IF \E i \in 1..Len(L) : L[i] = x
    THEN CHOOSE i \in 1..Len(L) : L[i] = x /\ \A j \in 1..(i - 1) : L[j] # x
    ELSE 0

\* position of the os.killpg call in L, 0 when L has none
PosKillpg(L) ==
    IF \E i \in 1..Len(L) :
         L[i] \in {"killpg:ok", "killpg:OSError", "killpg:AttributeError"}
    THEN CHOOSE i \in 1..Len(L) :
           L[i] \in {"killpg:ok", "killpg:OSError", "killpg:AttributeError"}
    ELSE 0

\* C15: a run of stop() that acts on a running child reads the group id
\* (os.getpgid, not on win32) after poll() found the child alive and before
\* the kill, then kills, then waits, and calls os.killpg only after the
\* wait; killpg is never called before or without the kill, and no group
\* is signalled whose leader was not killed.
C15_StopOrder ==
    LET k == Pos(stopLog, "kill")
        w == Pos(stopLog, "wait")
        p == Pos(stopLog, "getpgid")
        g == PosKillpg(stopLog)
    IN  /\ k > 0 => /\ 0 < Pos(stopLog, "poll")
                    /\ Pos(stopLog, "poll") < k
                    /\ ~win_env => (Pos(stopLog, "poll") < p /\ p < k)
                    /\ k < w
                    /\ w < g
        /\ g > 0 => (0 < k /\ k < g)
        /\ \A c \in Children : sigs[c] <= kills[c]

\* stop() killed a running child and its group got the signal
C15_Witness ==
    /\ Pos(stopLog, "kill") > 0
    /\ Pos(stopLog, "killpg:ok") > 0
    /\ \E c \in Children : sigs[c] = 1 /\ status[c] = "killed"

\* C16: start() and stop() leave path, host, port, proxyPortRange and
\* command as __init__ set them, on every outcome.
C16_ConfigUnchanged ==
    /\ [][pc # "new" => cfg' = cfg]_vars
    /\ [](pc \notin {"new", "no server"} => cfg = Config(platform, argPath))

\* start() and stop() have both raised and the configuration is as built
C16_Witness ==
    /\ pc = "idle"
    /\ lastOp = Op("stop", "OSError")
    /\ nextFile = 2
    /\ cfg = Config(platform, argPath)
    /\ cfg.command # <<>>

\* C17: the Server never holds two open log files, and after a stop() (or
\* the finalizer) that followed any starts none of its log files is open.
C17_OneLogFileAllClosed ==
    /\ Cardinality(openFiles) <= 1
    /\ (pc \in {"idle", "collected"} /\ lastOp.op \in {"stop", "finalize"})
         => openFiles = {}

\* C18: start() spawns a child only while no child this Server spawned
\* earlier is running, so at most one of its children is alive.
C18_OneLiveChild ==
    [][nextChild' > nextChild
         => /\ NoneRunning
            /\ Cardinality({c \in Children : status'[c] = "running"}) <= 1]_vars

====
